---- MODULE Spec2Model ----
(***************************************************************************)
(* A model of the now-you-know-me backend: the REST routes of              *)
(* src/routes.js, the socket handlers of src/socketHandlers.js and the     *)
(* leaderboard throttler emitLeaderboardUpdate.                            *)
(*                                                                         *)
(* The MongoDB store is the pair (sessions, players).  Every store call    *)
(* of a handler (findOne, findOneAndUpdate, save, create) is one atomic    *)
(* step; a handler with several awaited store calls is a sequence of       *)
(* steps that interleaves with the steps of the other handlers.            *)
(*                                                                         *)
(* Six specifications share the variables:                                 *)
(*   Spec          match confirmation and scores;                          *)
(*   SpecAssign    profile assignment;                                     *)
(*   SpecPresence  the session lifecycle, join, reconnect, disconnect;     *)
(*   SpecLeave     disconnects during the game;                            *)
(*   SpecThrottle  emitLeaderboardUpdate, its timers and its broadcasts;   *)
(*   SpecIsolation the same with events of several sessions.               *)
(* In the first four the clock stands still and the emissions that         *)
(* emitLeaderboardUpdate starts stay suspended at their store query.       *)
(***************************************************************************)
EXTENDS Integers, Sequences, FiniteSets, Bags, TLC

VARIABLES
    sessions,            \* Session collection: sessionId -> status, or "absent"
    players,             \* Player collection: _id -> document, or NoPlayer
    reqs,                \* handler invocations suspended at an await
    nStarted,            \* handler invocations started so far
    lastResponse,        \* what the handler that finished last answered
    matchReports,        \* per (finder, found): the answers of POST .../match
    createdWhile,        \* per player: the session status when it was inserted
    clock,               \* Date.now()
    sessionUpdateTimers, \* the throttling Map of routes.js
    emits,               \* emitLeaderboardUpdate bodies suspended at Player.find
    timeouts,            \* setTimeout callbacks not fired yet
    broadcasts,          \* updateLeaderboard emissions, oldest first
    owed,                \* per session: a triggering event awaits its broadcast
    unhandled            \* rejections of emitLeaderboardUpdate nobody caught

storeVars == <<sessions, players, createdWhile>>
reqVars == <<reqs, nStarted, lastResponse, matchReports>>
throttleVars == <<clock, sessionUpdateTimers, emits, timeouts, broadcasts, owed, unhandled>>
vars == <<sessions, players, reqs, nStarted, lastResponse, matchReports, createdWhile,
          clock, sessionUpdateTimers, emits, timeouts, broadcasts, owed, unhandled>>

----------------------------------------------------------------------------
(* Bounds *)

\* Handler invocations in one behaviour.
MaxOps == 3
\* Handler invocations suspended at an await at the same time.
MaxConc == 2
\* Triggering events in one behaviour of SpecThrottle.
MaxEvents == 4
\* Milliseconds of SpecThrottle's behaviours.
MaxElapsed == 6000

----------------------------------------------------------------------------
(* Identifiers *)

None == "none"
\* Player _ids, in the order the store hands them out.
IdOrder == <<"p1", "p2", "p3", "p4", "p5">>
AllIds == {IdOrder[n] : n \in DOMAIN IdOrder}
\* Session identifiers; "s3" names no session.  A session takes the name its
\* creator gives it (routes.js:95), here also "s1_scheduled".
SessionIds == {"s1", "s2", "s3", "s1_scheduled"}
\* socket.id values.
SocketIds == {"k1", "k2", "k3", "k4"}
Slots == 1 .. MaxConc

\* Points of a confirmed match (routes.js:409, socketHandlers.js:220) and of a
\* wrong guess (routes.js:481).
FinderReward == 100
WrongPenalty == 10

\* const THROTTLE_INTERVAL = 5000
THROTTLE_INTERVAL == 5000

\* Date.now() when the model starts: any value a running server can read.
StartTime == 2 * THROTTLE_INTERVAL
\* The amounts by which Date.now() is seen to advance.
ClockSteps == {1000, 4000}

----------------------------------------------------------------------------
(* The store *)

NoPlayer == [exists |-> FALSE]

\* What the Player schema gives a new document beside the fields a handler sets.
SchemaDefaults ==
    [exists |-> TRUE, socketId |-> None, hasProfile |-> FALSE, profile |-> FALSE,
     matches |-> <<>>, peopleKnown |-> 0, peopleWhoKnowYou |-> 0, wrongGuesses |-> 0,
     timesAssigned |-> 0, lastMatchAt |-> None, completedAt |-> None,
     isCompleted |-> FALSE]

\* new Player({name, sessionId, score: 0, status: "connected", preserveData: true})
NewRestPlayer(name, sessionId) ==
    [f \in DOMAIN SchemaDefaults \cup {"name", "sessionId", "score", "status"} |->
        CASE f = "name" -> name
          [] f = "sessionId" -> sessionId
          [] f = "score" -> 0
          [] f = "status" -> "connected"
          [] OTHER -> SchemaDefaults[f]]

\* Player.create({socketId, name, sessionId, score: 0, status: "connected", hasProfile: false})
NewSocketPlayer(socketId, name, sessionId) ==
    [NewRestPlayer(name, sessionId) EXCEPT !.socketId = socketId, !.hasProfile = FALSE]

Exists(p) == p \in AllIds /\ players[p].exists

\* Player.findOne({socketId}): a document carrying that socket.id, None when there is none.
BySocket(k) == {p \in AllIds : players[p].exists /\ players[p].socketId = k}

\* The player a match entry stands for, whichever field the writer used.
MatchedPlayer(m) == IF m.playerId # None THEN m.playerId ELSE m.matchedWith

Range(s) == {s[i] : i \in DOMAIN s}

----------------------------------------------------------------------------
(* Requests and responses *)

Idle == [op |-> "idle"]

\* The handler invocation that starts takes the lowest free slot.
FreeSlot == CHOOSE i \in Slots : reqs[i] = Idle /\ \A j \in Slots : reqs[j] = Idle => i <= j

CanStart == nStarted < MaxOps /\ \E i \in Slots : reqs[i] = Idle

\* What a handler answered: the HTTP status or the socket event in code, the
\* request's parameters, and the player it names in its answer.
Response(op, code, sessionId, playerId, other, result) ==
    [op |-> op, code |-> code, sessionId |-> sessionId, playerId |-> playerId,
     other |-> other, result |-> result]

NoReport == [recorded |-> 0, already |-> 0, failed |-> 0]

----------------------------------------------------------------------------
(* emitLeaderboardUpdate and the throttling Map *)

\* new Map(): keys are strings; a value is a number (a timestamp) or true (the
\* scheduled flag), kept with the number JavaScript reads it as in a subtraction.
EmptyMap == [k \in {} |-> 0]
NumberValue(n) == [type |-> "number", n |-> n]
TrueValue == [type |-> "boolean", n |-> 1]
MapSet(m, k, v) == [x \in DOMAIN m \cup {k} |-> IF x = k THEN v ELSE m[x]]
MapDelete(m, k) == [x \in DOMAIN m \ {k} |-> m[x]]
MapHas(m, k) == k \in DOMAIN m
\* sessionUpdateTimers.get(sessionId) || 0
LastUpdate(m, sessionId) == IF MapHas(m, sessionId) THEN m[sessionId].n ELSE 0

\* `${sessionId}_scheduled`
ScheduledKey(sessionId) == sessionId \o "_scheduled"

\* Player.find({sessionId}).sort({score: -1, lastMatchAt: 1}): the documents of
\* the session with the scores that order them.
FindPlayers(sessionId) ==
    [p \in {q \in AllIds : players[q].exists /\ players[q].sessionId = sessionId} |->
        players[p].score]

AddTo(bag, e) == bag (+) SetToBag({e})
RemoveFrom(bag, e) == bag (-) SetToBag({e})

\* An emitLeaderboardUpdate body, or a timer callback, suspended at Player.find.
Emission(sessionId, kind, now) ==
    [sessionId |-> sessionId, kind |-> kind, now |-> now, phase |-> "find",
     players |-> EmptyMap]

\* The synchronous part of emitLeaderboardUpdate(req, sessionId), lines 12-31:
\* the Map, the suspended bodies and the timers it leaves.
Throttle(sessionId) ==
    LET now == clock
        lastUpdate == LastUpdate(sessionUpdateTimers, sessionId)
    IN IF now - lastUpdate >= THROTTLE_INTERVAL
       THEN [map |-> sessionUpdateTimers,
             emits |-> AddTo(emits, Emission(sessionId, "immediate", now)),
             timeouts |-> timeouts]
       ELSE IF ~MapHas(sessionUpdateTimers, ScheduledKey(sessionId))
       THEN [map |-> MapSet(sessionUpdateTimers, ScheduledKey(sessionId), TrueValue),
             emits |-> emits,
             timeouts |-> AddTo(timeouts, [sessionId |-> sessionId,
                                           due |-> now + (THROTTLE_INTERVAL - (now - lastUpdate))])]
       ELSE [map |-> sessionUpdateTimers, emits |-> emits, timeouts |-> timeouts]

emitLeaderboardUpdate(sessionId) ==
    LET t == Throttle(sessionId)
    IN /\ sessionUpdateTimers' = t.map
       /\ emits' = t.emits
       /\ timeouts' = t.timeouts
       /\ owed' = [owed EXCEPT ![sessionId] = TRUE]
       /\ UNCHANGED <<clock, broadcasts, unhandled>>

----------------------------------------------------------------------------
(* GET /sessions/:sessionId/player/:playerId/new-profile *)

\* The documents the assignment query matches: same session, not the requester,
\* not an excluded _id, hasProfile.
Candidates(sessionId, playerId, excluded) ==
    {p \in AllIds : /\ players[p].exists
                    /\ players[p].sessionId = sessionId
                    /\ p # playerId
                    /\ p \notin excluded
                    /\ players[p].hasProfile}

\* A wrong sort order: any matching document.
AnyAssigned(S) == S

\* sort {timesAssigned: 1}: the documents findOneAndUpdate may take first.
LeastAssigned(S) ==
    {p \in S : \A q \in S : players[p].timesAssigned <= players[q].timesAssigned}

\* (currentPlayer.matches || []).map((m) => m.playerId)
MatchedIds(p) == {m.playerId : m \in Range(players[p].matches)} \ {None}

\* An update that writes a counter computed from the first read of a fresh
\* document instead of incrementing.
AssignOnce(c) == [players EXCEPT ![c].timesAssigned = 1]

\* {$inc: {timesAssigned: 1}} on the selected document.
Assign(c) == [players EXCEPT ![c].timesAssigned = @ + 1]

\* Player.findById(playerId): 404 when absent, else the exclusion list is built
\* from the document read here.
NewProfileFindById(sessionId, playerId, skip) ==
    /\ CanStart
    /\ nStarted' = nStarted + 1
    /\ IF ~players[playerId].exists
       THEN /\ lastResponse' = Response("newProfile", "404", sessionId, playerId, skip, None)
            /\ reqs' = reqs
       ELSE /\ reqs' = [reqs EXCEPT ![FreeSlot] =
                          [op |-> "newProfile", pc |-> "pass1", sessionId |-> sessionId,
                           playerId |-> playerId, skip |-> skip,
                           matchedIds |-> MatchedIds(playerId)]]
            /\ lastResponse' = lastResponse
    /\ UNCHANGED <<storeVars, matchReports, throttleVars>>

\* The first findOneAndUpdate: matched and skipped _ids excluded.
NewProfilePass1(i) ==
    /\ reqs[i].op = "newProfile" /\ reqs[i].pc = "pass1"
    /\ LET r == reqs[i]
           excl == r.matchedIds \cup ({r.skip} \ {None})
           cands == Candidates(r.sessionId, r.playerId, excl)
       IN IF cands # {}
          THEN \E c \in LeastAssigned(cands) :
                  /\ players' = Assign(c)
                  /\ reqs' = [reqs EXCEPT ![i] = Idle]
                  /\ lastResponse' = Response("newProfile", "200", r.sessionId, r.playerId, r.skip, c)
          ELSE IF r.skip # None
          THEN /\ reqs' = [reqs EXCEPT ![i].pc = "pass2"]
               /\ UNCHANGED <<players, lastResponse>>
          ELSE /\ reqs' = [reqs EXCEPT ![i] = Idle]
               /\ lastResponse' = Response("newProfile", "200", r.sessionId, r.playerId, r.skip, "ALL_PLAYERS_FOUND")
               /\ UNCHANGED players
    /\ UNCHANGED <<sessions, createdWhile, nStarted, matchReports, throttleVars>>

\* The retry without the skipped _id: only matched _ids excluded.
NewProfilePass2(i) ==
    /\ reqs[i].op = "newProfile" /\ reqs[i].pc = "pass2"
    /\ LET r == reqs[i]
           cands == Candidates(r.sessionId, r.playerId, r.matchedIds)
       IN IF cands # {}
          THEN \E c \in LeastAssigned(cands) :
                  /\ players' = Assign(c)
                  /\ lastResponse' = Response("newProfile", "200", r.sessionId, r.playerId, r.skip, c)
          ELSE /\ lastResponse' = Response("newProfile", "200", r.sessionId, r.playerId, r.skip, "ALL_PLAYERS_FOUND")
               /\ UNCHANGED players
    /\ reqs' = [reqs EXCEPT ![i] = Idle]
    /\ UNCHANGED <<sessions, createdWhile, nStarted, matchReports, throttleVars>>

----------------------------------------------------------------------------
(* POST /sessions/:sessionId/match *)

\* A handler that credits the found player before it looks at the finder.
PostMatchFoundFirst(sessionId, finderId, foundPlayerId) ==
    /\ CanStart
    /\ nStarted' = nStarted + 1
    /\ lastResponse' = Response("match", IF sessions[sessionId] = "absent" THEN "404" ELSE "500",
                                sessionId, finderId, foundPlayerId, None)
    /\ players' = IF players[foundPlayerId].exists
                  THEN [players EXCEPT ![foundPlayerId].peopleWhoKnowYou = @ + 1]
                  ELSE players
    /\ UNCHANGED <<sessions, createdWhile, reqs, matchReports, throttleVars>>

\* Session.findOne answers 404 for an unknown session.  For a known one the
\* handler builds the update document of findOneAndUpdate, which reads
\* matchTime (line 413) and foundPlayer.name (line 415); routes.js declares
\* neither, so evaluating the argument throws a ReferenceError before the store
\* is called, the catch of line 469 answers 500, and lines 423-468 never run.
PostMatch(sessionId, finderId, foundPlayerId) ==
    /\ CanStart
    /\ nStarted' = nStarted + 1
    /\ IF sessions[sessionId] = "absent"
       THEN /\ lastResponse' = Response("match", "404", sessionId, finderId, foundPlayerId, None)
            /\ matchReports' = matchReports
       ELSE /\ lastResponse' = Response("match", "500", sessionId, finderId, foundPlayerId, None)
            /\ matchReports' = [matchReports EXCEPT ![<<finderId, foundPlayerId>>].failed = @ + 1]
    /\ UNCHANGED <<storeVars, reqs, throttleVars>>

----------------------------------------------------------------------------
(* POST /sessions/:sessionId/wrong-match *)

\* findByIdAndUpdate(finderId, {$inc: {score: -10, wrongGuesses: 1}}): nothing
\* changes when no document has that _id.
WrongMatchUpdate(finderId) ==
    IF players[finderId].exists
    THEN [players EXCEPT ![finderId].score = @ - WrongPenalty,
                         ![finderId].wrongGuesses = @ + 1]
    ELSE players

\* The whole handler: the score update, then emitLeaderboardUpdate (not
\* awaited), then the answer, 200 whether or not a document matched.
WrongMatchHandler(sessionId, finderId) ==
    /\ nStarted' = nStarted + 1
    /\ players' = WrongMatchUpdate(finderId)
    /\ emitLeaderboardUpdate(sessionId)
    /\ lastResponse' = Response("wrongMatch", "200", sessionId, finderId, None, None)
    /\ UNCHANGED <<sessions, createdWhile, reqs, matchReports>>

PostWrongMatch(sessionId, finderId) ==
    /\ CanStart
    /\ WrongMatchHandler(sessionId, finderId)

----------------------------------------------------------------------------
(* POST /players/:playerId/profile *)

\* findByIdAndUpdate(playerId, {$set: {profile, hasProfile: true}}): 404 when no
\* document matched, else emitLeaderboardUpdate for the player's session.
PostProfile(playerId) ==
    /\ CanStart
    /\ nStarted' = nStarted + 1
    /\ IF players[playerId].exists
       THEN /\ players' = [players EXCEPT ![playerId].profile = TRUE,
                                          ![playerId].hasProfile = TRUE]
            /\ emitLeaderboardUpdate(players[playerId].sessionId)
            /\ lastResponse' = Response("profile", "200", players[playerId].sessionId, playerId, None, None)
       ELSE /\ players' = players
            /\ lastResponse' = Response("profile", "404", None, playerId, None, None)
            /\ UNCHANGED throttleVars
    /\ UNCHANGED <<sessions, createdWhile, reqs, matchReports>>

----------------------------------------------------------------------------
(* handleConfirmMatch(io, socket, {finder, foundPlayerId, selfieUrl}) *)

\* Player.findOne({socketId: finder}): the document read here supplies the score
\* that line 220 adds 100 to.
ConfirmFindFinder(finder, foundPlayerId) ==
    /\ CanStart
    /\ nStarted' = nStarted + 1
    /\ \E f \in (IF BySocket(finder) = {} THEN {None} ELSE BySocket(finder)) :
          reqs' = [reqs EXCEPT ![FreeSlot] =
                     [op |-> "confirmMatch", pc |-> "findFound", finder |-> finder,
                      foundPlayerId |-> foundPlayerId, finderPlayer |-> f,
                      finderScore |-> IF f = None THEN 0 ELSE players[f].score]]
    /\ UNCHANGED <<storeVars, lastResponse, matchReports, throttleVars>>

\* Player.findOne({_id: foundPlayerId}), then the check of line 215.
ConfirmFindFound(i) ==
    /\ reqs[i].op = "confirmMatch" /\ reqs[i].pc = "findFound"
    /\ LET r == reqs[i]
       IN IF r.finderPlayer = None \/ ~players[r.foundPlayerId].exists
          THEN /\ reqs' = [reqs EXCEPT ![i] = Idle]
               /\ lastResponse' = Response("confirmMatch", "error", None, r.finderPlayer, r.foundPlayerId, None)
          ELSE /\ reqs' = [reqs EXCEPT ![i].pc = "updateFinder"]
               /\ lastResponse' = lastResponse
    /\ UNCHANGED <<storeVars, nStarted, matchReports, throttleVars>>

\* The match entry of lines 226-231 (matchedAt and selfieUrl carry no decision).
SocketMatchEntry(foundPlayerId) ==
    [playerId |-> None, matchedWith |-> foundPlayerId,
     playerName |-> players[foundPlayerId].name]

\* findOneAndUpdate({socketId: finder}, {score: newFinderScore, $push, $inc}):
\* the score is set to the value computed from the earlier read.
ConfirmFinderUpdate(f, newFinderScore, foundPlayerId) ==
    [players EXCEPT ![f].score = newFinderScore,
                    ![f].matches = Append(@, SocketMatchEntry(foundPlayerId)),
                    ![f].peopleKnown = @ + 1]

ConfirmUpdateFinder(i) ==
    /\ reqs[i].op = "confirmMatch" /\ reqs[i].pc = "updateFinder"
    /\ LET r == reqs[i]
       IN IF BySocket(r.finder) = {}
          THEN players' = players
          ELSE \E f \in BySocket(r.finder) :
                  players' = ConfirmFinderUpdate(f, r.finderScore + FinderReward, r.foundPlayerId)
    /\ reqs' = [reqs EXCEPT ![i].pc = "updateFound"]
    /\ UNCHANGED <<sessions, createdWhile, nStarted, lastResponse, matchReports, throttleVars>>

\* findOneAndUpdate({_id: foundPlayer._id}, {$inc: {peopleWhoKnowYou: 1}}), then
\* the matchFound, scoreUpdated and leaderboardUpdated emissions.
ConfirmUpdateFound(i) ==
    /\ reqs[i].op = "confirmMatch" /\ reqs[i].pc = "updateFound"
    /\ LET r == reqs[i]
       IN /\ players' = [players EXCEPT ![r.foundPlayerId].peopleWhoKnowYou = @ + 1]
          /\ lastResponse' = Response("confirmMatch", "matchFound", players[r.finderPlayer].sessionId,
                                      r.finderPlayer, r.foundPlayerId, None)
    /\ reqs' = [reqs EXCEPT ![i] = Idle]
    /\ UNCHANGED <<sessions, createdWhile, nStarted, matchReports, throttleVars>>


----------------------------------------------------------------------------
(* Session lifecycle: POST .../start, POST .../end, handleStartGame, handleEndGame *)

\* Session.findOneAndUpdate({sessionId}, {status}): no filter on the status held.
SetStatus(sessionId, status) ==
    IF sessions[sessionId] = "absent" THEN sessions
    ELSE [sessions EXCEPT ![sessionId] = status]

PostStart(sessionId) ==
    /\ CanStart
    /\ nStarted' = nStarted + 1
    /\ sessions' = SetStatus(sessionId, "playing")
    /\ lastResponse' = Response("start", IF sessions[sessionId] = "absent" THEN "404" ELSE "200",
                                sessionId, None, None, None)
    /\ UNCHANGED <<players, createdWhile, reqs, matchReports, throttleVars>>

PostEnd(sessionId) ==
    /\ CanStart
    /\ nStarted' = nStarted + 1
    /\ sessions' = SetStatus(sessionId, "ended")
    /\ lastResponse' = Response("end", IF sessions[sessionId] = "absent" THEN "404" ELSE "200",
                                sessionId, None, None, None)
    /\ UNCHANGED <<players, createdWhile, reqs, matchReports, throttleVars>>

\* isAdmin: socket.handshake.auth.token === process.env.ADMIN_TOKEN
handleStartGame(sessionId, isAdmin) ==
    /\ CanStart
    /\ nStarted' = nStarted + 1
    /\ sessions' = IF isAdmin THEN SetStatus(sessionId, "playing") ELSE sessions
    /\ lastResponse' = Response("startGame", IF isAdmin THEN "gameStarted" ELSE "error",
                                sessionId, None, None, None)
    /\ UNCHANGED <<players, createdWhile, reqs, matchReports, throttleVars>>

handleEndGame(sessionId, isAdmin) ==
    /\ CanStart
    /\ nStarted' = nStarted + 1
    /\ sessions' = IF isAdmin THEN SetStatus(sessionId, "ended") ELSE sessions
    /\ lastResponse' = Response("endGame", IF isAdmin THEN "gameEnded" ELSE "error",
                                sessionId, None, None, None)
    /\ UNCHANGED <<players, createdWhile, reqs, matchReports, throttleVars>>

----------------------------------------------------------------------------
(* Joining: POST /sessions/:sessionId/join and handleJoinGame *)

\* The _id the store gives the next inserted document.
FreshId ==
    IdOrder[CHOOSE n \in DOMAIN IdOrder :
                /\ ~players[IdOrder[n]].exists
                /\ \A m \in DOMAIN IdOrder : ~players[IdOrder[m]].exists => n <= m]

CanInsert == \E p \in AllIds : ~players[p].exists

\* Session.findOne, then player.save(), then emitLeaderboardUpdate: the status
\* of the session is not read.
PostJoin(sessionId, name) ==
    /\ CanStart /\ CanInsert
    /\ nStarted' = nStarted + 1
    /\ IF sessions[sessionId] = "absent"
       THEN /\ lastResponse' = Response("join", "404", sessionId, None, None, None)
            /\ UNCHANGED <<players, createdWhile, throttleVars>>
       ELSE /\ players' = [players EXCEPT ![FreshId] = NewRestPlayer(name, sessionId)]
            /\ createdWhile' = [createdWhile EXCEPT ![FreshId] = sessions[sessionId]]
            /\ emitLeaderboardUpdate(sessionId)
            /\ lastResponse' = Response("join", "201", sessionId, None, None, FreshId)
    /\ UNCHANGED <<sessions, reqs, matchReports>>

JoinError(r) == Response("joinGame", "error", r.sessionId, r.playerId, r.socket, None)

\* Session.findOne and the checks of lines 25-33.  With no playerId the handler
\* goes on to line 55, where the status read here decides.
JoinFindSession(socket, name, sessionId, playerId) ==
    /\ CanStart
    /\ nStarted' = nStarted + 1
    /\ LET r == [op |-> "joinGame", pc |-> IF playerId = None THEN "create" ELSE "findPlayer",
                 socket |-> socket, name |-> name, sessionId |-> sessionId,
                 playerId |-> playerId, status |-> sessions[sessionId],
                 loaded |-> NoPlayer]
       IN IF sessions[sessionId] \in {"absent", "ended"}
             \/ (playerId = None /\ sessions[sessionId] = "playing")
          THEN /\ lastResponse' = JoinError(r)
               /\ reqs' = reqs
          ELSE /\ reqs' = [reqs EXCEPT ![FreeSlot] = r]
               /\ lastResponse' = lastResponse
    /\ UNCHANGED <<storeVars, matchReports, throttleVars>>

\* Player.findOne({_id: playerId, sessionId}): the document read is the one
\* save() later compares with.
JoinFindPlayer(i) ==
    /\ reqs[i].op = "joinGame" /\ reqs[i].pc = "findPlayer"
    /\ LET r == reqs[i]
           found == players[r.playerId].exists /\ players[r.playerId].sessionId = r.sessionId
       IN reqs' = [reqs EXCEPT ![i].pc = IF found THEN "save" ELSE "findName",
                               ![i].loaded = IF found THEN players[r.playerId] ELSE NoPlayer]
    /\ UNCHANGED <<storeVars, nStarted, lastResponse, matchReports, throttleVars>>

\* A lookup that never finds the name.
NameFree(name, sessionId) == FALSE

\* Player.findOne({name, sessionId}) finds a document.
NameTaken(name, sessionId) ==
    \E p \in AllIds : /\ players[p].exists
                      /\ players[p].name = name
                      /\ players[p].sessionId = sessionId

\* Player.findOne({name, sessionId}) for a playerId that did not resolve, then
\* the check of line 56 on the status read at the start.
JoinFindName(i) ==
    /\ reqs[i].op = "joinGame" /\ reqs[i].pc = "findName"
    /\ LET r == reqs[i]
           taken == NameTaken(r.name, r.sessionId)
       IN IF taken \/ r.status = "playing"
          THEN /\ reqs' = [reqs EXCEPT ![i] = Idle]
               /\ lastResponse' = JoinError(r)
          ELSE /\ reqs' = [reqs EXCEPT ![i].pc = "create"]
               /\ lastResponse' = lastResponse
    /\ UNCHANGED <<storeVars, nStarted, matchReports, throttleVars>>

\* player.socketId = socket.id; player.status = "connected"; await player.save().
\* A Mongoose document records a path as modified only when the assigned value
\* differs from the one it was loaded with, and save() sends a $set of the
\* modified paths alone.
SaveModified(p, loaded, socket) ==
    [players EXCEPT ![p].socketId = IF loaded.socketId # socket THEN socket ELSE @,
                    ![p].status = IF loaded.status # "connected" THEN "connected" ELSE @]

\* The reconnect: save(), then socket.join, getPlayerState and the gameState and
\* playerJoined emissions.
JoinSave(i) ==
    /\ reqs[i].op = "joinGame" /\ reqs[i].pc = "save"
    /\ LET r == reqs[i]
       IN /\ players' = SaveModified(r.playerId, r.loaded, r.socket)
          /\ lastResponse' = Response("joinGame", "gameState", r.sessionId, r.playerId, r.socket, r.playerId)
    /\ reqs' = [reqs EXCEPT ![i] = Idle]
    /\ UNCHANGED <<sessions, createdWhile, nStarted, matchReports, throttleVars>>

\* Player.create, then socket.join, getPlayerState and the emissions.
JoinCreate(i) ==
    /\ reqs[i].op = "joinGame" /\ reqs[i].pc = "create"
    /\ CanInsert
    /\ LET r == reqs[i]
       IN /\ players' = [players EXCEPT ![FreshId] = NewSocketPlayer(r.socket, r.name, r.sessionId)]
          /\ createdWhile' = [createdWhile EXCEPT ![FreshId] = sessions[r.sessionId]]
          /\ lastResponse' = Response("joinGame", "gameState", r.sessionId, r.playerId, r.socket, FreshId)
    /\ reqs' = [reqs EXCEPT ![i] = Idle]
    /\ UNCHANGED <<sessions, nStarted, matchReports, throttleVars>>

\* A disconnect that drops the document.
RemovePlayer(p) == [players EXCEPT ![p] = NoPlayer]

\* {$set: {status: "disconnected"}} on the document found.
MarkDisconnected(p) == [players EXCEPT ![p].status = "disconnected"]

\* Player.findOneAndUpdate({socketId: socket.id}, {$set: {status: "disconnected"}}),
\* then playerLeft to the room of the document found, if one was.
handleDisconnect(socket) ==
    /\ CanStart
    /\ nStarted' = nStarted + 1
    /\ IF BySocket(socket) = {}
       THEN /\ players' = players
            /\ lastResponse' = Response("disconnect", "none", None, None, socket, None)
       ELSE \E p \in BySocket(socket) :
               /\ players' = MarkDisconnected(p)
               /\ lastResponse' = Response("disconnect", "playerLeft", players[p].sessionId, None, socket, p)
    /\ UNCHANGED <<sessions, createdWhile, reqs, matchReports, throttleVars>>

----------------------------------------------------------------------------
(* The asynchronous part of emitLeaderboardUpdate *)

\* A triggering event of SpecThrottle: the wrong-match handler, counted against
\* MaxEvents.
WrongMatchEvent(sessionId, finderId) ==
    /\ nStarted < MaxEvents
    /\ WrongMatchHandler(sessionId, finderId)

\* The setTimeout callback of line 24 starts, no earlier than its delay.
TimeoutFires(t) ==
    /\ BagIn(t, timeouts)
    /\ t.due <= clock
    /\ timeouts' = RemoveFrom(timeouts, t)
    /\ emits' = AddTo(emits, Emission(t.sessionId, "deferred", clock))
    /\ UNCHANGED <<storeVars, reqVars, clock, sessionUpdateTimers, broadcasts, owed, unhandled>>

\* The store answers Player.find of lines 17 and 25.
EmitFind(e) ==
    /\ BagIn(e, emits)
    /\ e.phase = "find"
    /\ emits' = AddTo(RemoveFrom(emits, e),
                      [e EXCEPT !.phase = "found", !.players = FindPlayers(e.sessionId)])
    /\ UNCHANGED <<storeVars, reqVars, clock, sessionUpdateTimers, timeouts, broadcasts, owed, unhandled>>

\* Player.find rejects: the body ends there, nothing after the await runs, and
\* no caller awaits or catches the promise.
EmitFindFails(e) ==
    /\ BagIn(e, emits)
    /\ e.phase = "find"
    /\ emits' = RemoveFrom(emits, e)
    /\ unhandled' = unhandled + 1
    /\ UNCHANGED <<storeVars, reqVars, clock, sessionUpdateTimers, timeouts, broadcasts, owed>>

\* The Map after an emission: lines 19 (the time read before the await) and
\* 27-28 (the time read now, and the flag deleted).
AfterEmit(e) ==
    IF e.kind = "immediate"
    THEN MapSet(sessionUpdateTimers, e.sessionId, NumberValue(e.now))
    ELSE MapDelete(MapSet(sessionUpdateTimers, e.sessionId, NumberValue(clock)),
                   ScheduledKey(e.sessionId))

\* The body resumes after the await: the emit to the room, then the Map.
EmitResume(e) ==
    /\ BagIn(e, emits)
    /\ e.phase = "found"
    /\ emits' = RemoveFrom(emits, e)
    /\ broadcasts' = Append(broadcasts, [sessionId |-> e.sessionId, at |-> clock,
                                         players |-> e.players])
    /\ sessionUpdateTimers' = AfterEmit(e)
    /\ owed' = [owed EXCEPT ![e.sessionId] = @ /\ e.players # FindPlayers(e.sessionId)]
    /\ UNCHANGED <<storeVars, reqVars, clock, timeouts, unhandled>>

\* Time passes, up to the moment the next timer is due.  A store query answers
\* within one clock step: no body stays suspended while the clock advances.
Tick(d) ==
    /\ clock + d <= StartTime + MaxElapsed
    /\ emits = EmptyBag
    /\ \A t \in BagToSet(timeouts) : clock + d <= t.due
    /\ clock' = clock + d
    /\ UNCHANGED <<storeVars, reqVars, sessionUpdateTimers, emits, timeouts, broadcasts, owed, unhandled>>

----------------------------------------------------------------------------
(* The game being played: the initial state of Spec and SpecAssign *)

\* A joined player of the game: it holds the socket it joined on, and has or has
\* not yet submitted its profile.
JoinedPlayer(name, socketId, sessionId, withProfile) ==
    [NewSocketPlayer(socketId, name, sessionId) EXCEPT !.hasProfile = withProfile,
                                                       !.profile = withProfile]

\* The requests of POST /sessions/:sessionId/match: a pair of players of s1, an
\* unknown finder, an unknown found player, an unknown session.
MatchRequests ==
    {<<"s1", "p1", "p2">>, <<"s1", "p5", "p2">>, <<"s1", "p1", "p5">>, <<"s3", "p1", "p2">>}
MatchPairs == {<<m[2], m[3]>> : m \in MatchRequests}

IdleHandlers ==
    /\ reqs = [i \in Slots |-> Idle]
    /\ nStarted = 0
    /\ lastResponse = Response("none", None, None, None, None, None)
    /\ matchReports = [pr \in MatchPairs |-> NoReport]

\* The throttler as routes.js creates it: an empty Map, nothing scheduled.
IdleThrottle ==
    /\ sessionUpdateTimers = EmptyMap
    /\ emits = EmptyBag
    /\ timeouts = EmptyBag
    /\ broadcasts = <<>>
    /\ owed = [s \in SessionIds |-> FALSE]
    /\ unhandled = 0

\* Sessions s1, s2 and s1_scheduled are being played and s3 does not exist.  p1, p2 and p3
\* joined s1 over sockets k1, k2, k3, p4 joined s2 over k4, and no document has
\* _id p5.  All have submitted a profile, except perhaps p3.
Init ==
    /\ sessions = [s \in SessionIds |-> IF s = "s3" THEN "absent" ELSE "playing"]
    /\ \E prof3 \in BOOLEAN :
          players = [p \in AllIds |->
                        CASE p = "p1" -> JoinedPlayer("ann", "k1", "s1", TRUE)
                          [] p = "p2" -> JoinedPlayer("bob", "k2", "s1", TRUE)
                          [] p = "p3" -> JoinedPlayer("cy", "k3", "s1", prof3)
                          [] p = "p4" -> JoinedPlayer("dee", "k4", "s2", TRUE)
                          [] OTHER -> NoPlayer]
    /\ createdWhile = [p \in AllIds |-> IF p = "p5" THEN None ELSE "waiting"]
    /\ clock = StartTime
    /\ IdleHandlers
    /\ IdleThrottle

----------------------------------------------------------------------------
(* Spec: match confirmation and scores *)

\* The confirmMatch events: the finder is a socket.id the client names, of p1,
\* of p2, or of nobody; the found player is of the finder's session (or the
\* finder itself), of another session, or unknown.
ConfirmFinders == {"k1", "k2", "k9"}
ConfirmFounds == {"p2", "p4", "p5"}

WrongGuessers == {"p1", "p2", "p5"}

Next ==
    \/ \E m \in MatchRequests : PostMatch(m[1], m[2], m[3])
    \/ \E f \in WrongGuessers : PostWrongMatch("s1", f)
    \/ \E k \in ConfirmFinders, g \in ConfirmFounds : ConfirmFindFinder(k, g)
    \/ \E i \in Slots : ConfirmFindFound(i)
    \/ \E i \in Slots : ConfirmUpdateFinder(i)
    \/ \E i \in Slots : ConfirmUpdateFound(i)

Spec == Init /\ [][Next]_vars

----------------------------------------------------------------------------
(* SpecAssign: profile assignment *)

\* The requests of GET .../new-profile: p1, p2 or an unknown player asks in s1,
\* skipping nobody, p2 or p3; p1 asks in the session it is not in.
AssignRequests ==
    ({"s1"} \X {"p1", "p2", "p5"} \X {None, "p2", "p3"}) \cup {<<"s2", "p1", None>>}

NextAssign ==
    \/ \E a \in AssignRequests : NewProfileFindById(a[1], a[2], a[3])
    \/ \E i \in Slots : NewProfilePass1(i)
    \/ \E i \in Slots : NewProfilePass2(i)
    \/ \E p \in {"p3", "p5"} : PostProfile(p)
    \/ ConfirmFindFinder("k1", "p2")
    \/ \E i \in Slots : ConfirmFindFound(i)
    \/ \E i \in Slots : ConfirmUpdateFinder(i)
    \/ \E i \in Slots : ConfirmUpdateFound(i)

SpecAssign == Init /\ [][NextAssign]_vars

----------------------------------------------------------------------------
(* Claims about match confirmation (Spec) *)

\* The entries of p's match list that stand for g.
EntriesFor(p, g) ==
    {i \in DOMAIN players[p].matches : MatchedPlayer(players[p].matches[i]) = g}

\* C1: of the POST .../match requests for one (finder, found) pair of existing
\* players in an existing session, exactly one reports the match as recorded,
\* every other one reports "already recorded", and the finder's match list then
\* holds exactly one entry for the found player.
C1_ExactlyOneRecorded ==
    \A pr \in MatchPairs :
        LET r == matchReports[pr]
            f == pr[1]
            g == pr[2]
        IN (r.recorded + r.already + r.failed > 0 /\ players[f].exists /\ players[g].exists)
              => /\ r.recorded = 1
                 /\ r.failed = 0
                 /\ Cardinality(EntriesFor(f, g)) = 1

\* C2: no player's match list holds two entries for the same matched player.
C2_NoDuplicateMatch ==
    \A p \in AllIds :
        players[p].exists => \A g \in AllIds : Cardinality(EntriesFor(p, g)) <= 1

\* C9: POST .../match in an existing session answers NotFound (404) when the
\* finder or the found player does not exist, answers "already recorded" (400)
\* only when the finder exists and holds an entry for the found player, and
\* records no match for a found player that does not exist.
C9_NotFoundDistinct ==
    (lastResponse.op = "match" /\ sessions[lastResponse.sessionId] # "absent") =>
        LET f == lastResponse.playerId
            g == lastResponse.other
        IN /\ (~players[f].exists \/ ~players[g].exists) => lastResponse.code = "404"
           /\ lastResponse.code = "400" => (players[f].exists /\ EntriesFor(f, g) # {})
           /\ (players[f].exists /\ ~players[g].exists) => EntriesFor(f, g) = {}

\* The players p has confirmed a match with.
DistinctMatched(p) == {MatchedPlayer(m) : m \in Range(players[p].matches)}

\* C10: each player's score is 100 times the number of distinct players it has
\* confirmed minus 10 times its wrongGuesses.
C10_ScoreExact ==
    \A p \in AllIds :
        players[p].exists =>
            players[p].score = FinderReward * Cardinality(DistinctMatched(p))
                               - WrongPenalty * players[p].wrongGuesses

\* A handler that runs to its answer without suspending answers in this step.
AnswersAtOnce == nStarted' # nStarted /\ reqs' = reqs

\* C11: a POST .../match for two existing players of the requested session, the
\* finder holding no entry for the found player, answers 200, adds 100 to the
\* finder's score and 1 to its peopleKnown, appends one entry naming the found
\* player, and adds 1 to the found player's peopleWhoKnowYou.
C11_MatchEffect ==
    [][LET a == lastResponse'
           f == a.playerId
           g == a.other
       IN (/\ AnswersAtOnce
           /\ a.op = "match"
           /\ players[f].exists /\ players[g].exists
           /\ players[f].sessionId = a.sessionId /\ players[g].sessionId = a.sessionId
           /\ EntriesFor(f, g) = {})
          => /\ a.code = "200"
             /\ players'[f].score = players[f].score + FinderReward
             /\ players'[f].peopleKnown = players[f].peopleKnown + 1
             /\ Len(players'[f].matches) = Len(players[f].matches) + 1
             /\ MatchedPlayer(players'[f].matches[Len(players'[f].matches)]) = g
             /\ players'[g].peopleWhoKnowYou = players[g].peopleWhoKnowYou + 1]_vars

\* C20: a POST .../match whose finder does not exist, or already holds an
\* entry for the found player, writes nothing: every player record and every
\* session is as before.
C20_NoWriteWhenNotApplied ==
    [][LET a == lastResponse'
           f == a.playerId
           g == a.other
       IN (/\ AnswersAtOnce
           /\ a.op = "match"
           /\ (~players[f].exists \/ EntriesFor(f, g) # {}))
          => /\ players' = players
             /\ sessions' = sessions]_vars

\* The match request that answered last named a finder that held an entry for
\* the found player when it was made.
C20_Witness ==
    /\ \A i \in Slots : reqs[i] = Idle
    /\ lastResponse.op = "match"
    /\ players[lastResponse.playerId].exists
    /\ EntriesFor(lastResponse.playerId, lastResponse.other) # {}

\* C25: every entry of a player's match list names an existing player, other
\* than the player itself, of the player's own session.
C25_MatchEntriesValid ==
    \A p \in AllIds :
        players[p].exists =>
            \A g \in DistinctMatched(p) :
                /\ g \in AllIds
                /\ players[g].exists
                /\ g # p
                /\ players[g].sessionId = players[p].sessionId

----------------------------------------------------------------------------
(* Claims about assignment (SpecAssign) *)

\* The players the claim calls eligible for a request: of the requested session,
\* not the requester, with a profile, not matched by the requester, not skipped.
ClaimEligible(sessionId, playerId, skip) ==
    {p \in AllIds : /\ players[p].exists
                    /\ players[p].sessionId = sessionId
                    /\ p # playerId
                    /\ players[p].hasProfile
                    /\ p \notin DistinctMatched(playerId)
                    /\ p # skip}

\* C3: the step that assigns candidate c (the one step that raises c's
\* timesAssigned) is the answer of a new-profile request, and in the state it is
\* taken from no player eligible for that request has a timesAssigned below c's.
C3_FairSelection ==
    [][\A c \in AllIds :
          (players[c].exists /\ players'[c].timesAssigned > players[c].timesAssigned) =>
              LET a == lastResponse'
              IN /\ a.op = "newProfile" /\ a.result = c
                 /\ \A q \in ClaimEligible(a.sessionId, a.playerId, a.other) :
                       players[c].timesAssigned <= players[q].timesAssigned]_vars

\* A request was answered with candidate c although another eligible player had
\* been assigned more often than c had been before this answer.
C3_Witness ==
    /\ lastResponse.op = "newProfile"
    /\ lastResponse.result \in AllIds
    /\ \E q \in ClaimEligible(lastResponse.sessionId, lastResponse.playerId, lastResponse.other) :
          /\ q # lastResponse.result
          /\ players[q].timesAssigned > players[lastResponse.result].timesAssigned - 1

\* C12: for a new-profile request with a skip id.  While another eligible
\* player exists when the first query runs, that query answers with a player
\* other than the skipped one; and a request answered while the skipped player
\* is the only eligible one is answered with the skipped player.
C12_SkipLastResort ==
    [][\A i \in Slots :
          LET r == reqs[i]
              eligible == ClaimEligible(r.sessionId, r.playerId, None)
          IN (r.op = "newProfile" /\ r.skip # None /\ reqs'[i] # r) =>
                /\ (r.pc = "pass1" /\ eligible \ {r.skip} # {}) =>
                      /\ reqs'[i] = Idle
                      /\ lastResponse'.result \in AllIds \ {r.skip}
                /\ (eligible = {r.skip} /\ reqs'[i] = Idle) =>
                      lastResponse'.result = r.skip]_vars

\* C13: a new-profile request of an existing requester is answered
\* ALL_PLAYERS_FOUND exactly when no other player of the session has a profile
\* and is unmatched by the requester, and then no timesAssigned changes.
C13_ExhaustedExactly ==
    [][\A i \in Slots :
          LET r == reqs[i]
              exhausted == lastResponse'.result = "ALL_PLAYERS_FOUND"
          IN (r.op = "newProfile" /\ reqs'[i] = Idle) =>
                /\ exhausted <=> ClaimEligible(r.sessionId, r.playerId, None) = {}
                /\ exhausted =>
                      \A q \in AllIds :
                          players[q].exists => players'[q].timesAssigned = players[q].timesAssigned]_vars

\* C18: the candidate a new-profile request is answered with is a player of
\* the requested session, is not the requester, has a profile, and is not named
\* by any entry of the requester's match list.
C18_CandidateEligible ==
    [][\A i \in Slots :
          LET r == reqs[i]
              c == lastResponse'.result
          IN (r.op = "newProfile" /\ reqs'[i] = Idle /\ c \in AllIds) =>
                /\ players[c].exists
                /\ players[c].sessionId = r.sessionId
                /\ c # r.playerId
                /\ players[c].hasProfile
                /\ c \notin DistinctMatched(r.playerId)]_vars

\* C21: a step in which a new-profile request is answered with candidate c
\* raises c's timesAssigned by exactly 1 and leaves every other player's as it
\* was; every other step leaves every timesAssigned as it was.  So k answers
\* naming c raise its counter by exactly k, and no counter ever decreases.
C21_ExactIncrement ==
    [][LET a == lastResponse'
           assigns == \E i \in Slots : /\ reqs[i].op = "newProfile"
                                        /\ reqs'[i] = Idle
                                        /\ a.result \in AllIds
       IN \A q \in AllIds :
             players[q].exists =>
                 /\ players'[q].exists
                 /\ players'[q].timesAssigned =
                        players[q].timesAssigned + (IF assigns /\ a.result = q THEN 1 ELSE 0)]_vars

\* A request was answered with a candidate that had been handed out before.
C21_Witness ==
    /\ lastResponse.op = "newProfile"
    /\ lastResponse.result \in AllIds
    /\ players[lastResponse.result].timesAssigned >= 2

----------------------------------------------------------------------------
(* SpecPresence: session lifecycle, join, reconnect, disconnect *)

\* Session s1 waits for its players, s2 and s3 do not exist; ann has joined s1
\* over socket k1 and is connected; no handler is running.
InitPresence ==
    /\ sessions = [s \in SessionIds |-> IF s = "s1" THEN "waiting" ELSE "absent"]
    /\ players = [p \in AllIds |->
                    IF p = "p1" THEN NewSocketPlayer("k1", "ann", "s1") ELSE NoPlayer]
    /\ createdWhile = [p \in AllIds |-> IF p = "p1" THEN "waiting" ELSE None]
    /\ clock = StartTime
    /\ IdleHandlers
    /\ IdleThrottle

\* The joinGame events: over socket k2, as ann or bob, into s1, with no prior
\* _id, with ann's _id or with an _id that names no player; and into no session.
JoinEvents ==
    ({"k2"} \X {"ann", "bob"} \X {"s1"} \X {None, "p1", "p5"}) \cup {<<"k2", "bob", "s3", None>>}

NextPresence ==
    \/ \E s \in {"s1", "s3"} : PostStart(s)
    \/ \E s \in {"s1", "s3"} : PostEnd(s)
    \/ \E a \in BOOLEAN : handleStartGame("s1", a)
    \/ \E a \in BOOLEAN : handleEndGame("s1", a)
    \/ \E s \in {"s1", "s3"} : PostJoin(s, "bob")
    \/ \E j \in JoinEvents : JoinFindSession(j[1], j[2], j[3], j[4])
    \/ \E i \in Slots : JoinFindPlayer(i)
    \/ \E i \in Slots : JoinFindName(i)
    \/ \E i \in Slots : JoinSave(i)
    \/ \E i \in Slots : JoinCreate(i)
    \/ \E k \in {"k1", "k2", "k3"} : handleDisconnect(k)

SpecPresence == InitPresence /\ [][NextPresence]_vars

\* A handler answers in this step: one that runs to its answer without
\* suspending, or a suspended one that finishes.
Answers ==
    \/ nStarted' # nStarted /\ reqs' = reqs
    \/ \E i \in Slots : reqs[i] # Idle /\ reqs'[i] = Idle

\* C6: the status of a session only moves from waiting to playing and from
\* playing to ended.
C6_StatusMonotonic ==
    [][\A s \in SessionIds :
          sessions'[s] # sessions[s] =>
              <<sessions[s], sessions'[s]>> \in {<<"waiting", "playing">>, <<"playing", "ended">>}]_vars

\* C7: a joinGame whose prior player id resolves to a player of the session is
\* answered with the game state, whatever the session's status, and leaves the
\* player bound to the new socket and connected.
C7_ReconnectSucceeds ==
    [][LET a == lastResponse'
       IN (/\ Answers
           /\ a.op = "joinGame"
           /\ a.playerId # None
           /\ players[a.playerId].exists
           /\ players[a.playerId].sessionId = a.sessionId)
          => /\ a.code = "gameState"
             /\ players'[a.playerId].socketId = a.other
             /\ players'[a.playerId].status = "connected"]_vars

\* C8: a player record is inserted only while its session is waiting.
C8_JoinOnlyWhileWaiting ==
    \A p \in AllIds : players[p].exists => createdWhile[p] = "waiting"

\* The session of join request r holds a player with the name r asks for.
SameNameExists(r) ==
    \E p \in AllIds :
        players[p].exists /\ players[p].sessionId = r.sessionId /\ players[p].name = r.name

C22_ReconnectStaysConnected ==
    [][/\ \A i \in Slots :
             (reqs[i].op = "joinGame" /\ reqs[i].pc = "save" /\ reqs'[i] = Idle) =>
                 players'[reqs[i].playerId].status = "connected"
       /\ \A p \in AllIds :
             (/\ players[p].exists
              /\ players[p].status = "connected"
              /\ players'[p].status = "disconnected") =>
                 /\ lastResponse'.op = "disconnect"
                 /\ lastResponse'.other = players[p].socketId]_vars

----------------------------------------------------------------------------
(* SpecLeave: disconnects during the game *)

\* Sockets k1 and k2 (of p1 and p2) or a socket no player holds disconnect
\* while p1 confirms p2 and guesses wrong.
NextLeave ==
    \/ \E k \in {"k1", "k2", "k9"} : handleDisconnect(k)
    \/ PostWrongMatch("s1", "p1")
    \/ ConfirmFindFinder("k1", "p2")
    \/ \E i \in Slots : ConfirmFindFound(i)
    \/ \E i \in Slots : ConfirmUpdateFinder(i)
    \/ \E i \in Slots : ConfirmUpdateFound(i)

SpecLeave == Init /\ [][NextLeave]_vars

\* C14: a disconnect of a socket some player holds sets that one player's
\* status to disconnected and changes nothing else in any player record, keeps
\* the record, and sends playerLeft for that player to the room of its session;
\* a disconnect of a socket no player holds changes no record.
C14_DisconnectFrame ==
    [][LET a == lastResponse'
       IN (AnswersAtOnce /\ a.op = "disconnect") =>
             /\ sessions' = sessions
             /\ IF BySocket(a.other) = {}
                THEN players' = players
                ELSE \E p \in BySocket(a.other) :
                        /\ players'[p].exists
                        /\ players'[p].status = "disconnected"
                        /\ \A f \in DOMAIN players[p] \ {"status"} : players'[p][f] = players[p][f]
                        /\ DOMAIN players'[p] = DOMAIN players[p]
                        /\ \A q \in AllIds \ {p} : players'[q] = players[q]
                        /\ a.code = "playerLeft" /\ a.sessionId = players[p].sessionId
                        /\ a.result = p]_vars

\* The handler that answered last is the disconnect of a player that had a
\* recorded match and a changed score.
C14_Witness ==
    /\ \A i \in Slots : reqs[i] = Idle
    /\ lastResponse.op = "disconnect"
    /\ lastResponse.code = "playerLeft"
    /\ players[lastResponse.result].status = "disconnected"
    /\ players[lastResponse.result].matches # <<>>
    /\ players[lastResponse.result].score # 0

----------------------------------------------------------------------------
(* SpecThrottle: the leaderboard throttler *)

\* The triggering events are wrong guesses of p1 in s1: each changes what
\* Player.find returns for s1.
NextThrottle ==
    \/ WrongMatchEvent("s1", "p1")
    \/ \E t \in BagToSet(timeouts) : TimeoutFires(t)
    \/ \E e \in BagToSet(emits) : EmitFind(e)
    \/ \E e \in BagToSet(emits) : EmitFindFails(e)
    \/ \E e \in BagToSet(emits) : EmitResume(e)
    \/ \E d \in ClockSteps : Tick(d)

\* The game of Init in which every player has submitted a profile.
InitThrottle == Init /\ players["p3"].hasProfile

SpecThrottle == InitThrottle /\ [][NextThrottle]_vars

Pending(s) ==
    \/ \E e \in BagToSet(emits) : e.sessionId = s
    \/ \E t \in BagToSet(timeouts) : t.sessionId = s

\* C4: two consecutive broadcasts of a session are at least THROTTLE_INTERVAL
\* apart.
C4_BroadcastSpacing ==
    \A i, j \in DOMAIN broadcasts :
        (i < j /\ broadcasts[i].sessionId = broadcasts[j].sessionId)
            => broadcasts[j].at - broadcasts[i].at >= THROTTLE_INTERVAL

\* C5: while no store query has failed, a session whose latest triggering event
\* has not been followed by a broadcast read after it has an emission in flight
\* or a timer pending; without one, nothing will ever broadcast that event.
C5_NoEventSwallowed ==
    unhandled = 0 => \A s \in SessionIds : owed[s] => Pending(s)

\* C16: a failure of the store query inside emitLeaderboardUpdate, in the
\* immediate path or in the timer callback, is caught: no rejection is left
\* unhandled.
C16_BroadcastFailureSwallowed == unhandled = 0

\* The timers of session s not fired yet, and the timer callbacks of s that
\* have fired and not finished.
TimersOf(s) == {t \in BagToSet(timeouts) : t.sessionId = s}
FiringOf(s) == {e \in BagToSet(emits) : e.sessionId = s /\ e.kind = "deferred"}

\* C19: a session has at most one deferred emission, counting a timer from its
\* scheduling to the end of its callback, and the scheduled flag of the session
\* is set exactly while it has one.
C19_OneDeferredTimer ==
    \A s \in SessionIds :
        /\ \A t \in TimersOf(s) : CopiesIn(t, timeouts) = 1
        /\ \A e \in FiringOf(s) : CopiesIn(e, emits) = 1
        /\ Cardinality(TimersOf(s)) + Cardinality(FiringOf(s)) <= 1
        /\ MapHas(sessionUpdateTimers, ScheduledKey(s))
              <=> Cardinality(TimersOf(s)) + Cardinality(FiringOf(s)) = 1

----------------------------------------------------------------------------
(* SpecIsolation: the throttler with events of several sessions *)

\* Wrong guesses are reported in s1, in s2 and in the session named
\* s1_scheduled; no store query fails.
IsolationSessions == {"s1", "s2", "s1_scheduled"}

NextIsolation ==
    \/ \E s \in IsolationSessions : WrongMatchEvent(s, "p1")
    \/ \E t \in BagToSet(timeouts) : TimeoutFires(t)
    \/ \E e \in BagToSet(emits) : EmitFind(e)
    \/ \E e \in BagToSet(emits) : EmitResume(e)
    \/ \E d \in ClockSteps : Tick(d)

SpecIsolation == InitThrottle /\ [][NextIsolation]_vars

\* What the Map holds under key k, none when it holds nothing.
MapGet(m, k) == IF MapHas(m, k) THEN m[k] ELSE [type |-> "undefined", n |-> 0]

\* C23: a triggering event of session s, and a broadcast of session s, leave the
\* last-emission entry and the scheduled flag of every other session as they
\* were; and a triggering event of s is not suppressed: after it s has an
\* emission in flight or a timer pending of its own.
C23_SessionIsolation ==
    [][/\ \A s \in SessionIds :
             (\/ nStarted' # nStarted /\ lastResponse'.sessionId = s
              \/ /\ Len(broadcasts') > Len(broadcasts)
                 /\ broadcasts'[Len(broadcasts')].sessionId = s) =>
                \A u \in SessionIds \ {s} :
                    /\ MapGet(sessionUpdateTimers', u) = MapGet(sessionUpdateTimers, u)
                    /\ MapGet(sessionUpdateTimers', ScheduledKey(u))
                          = MapGet(sessionUpdateTimers, ScheduledKey(u))
       /\ nStarted' # nStarted =>
             \/ \E e \in BagToSet(emits') : e.sessionId = lastResponse'.sessionId
             \/ \E t \in BagToSet(timeouts') : t.sessionId = lastResponse'.sessionId]_vars

====
